---- MODULE Spec2Model ----
(***************************************************************************)
(* Model of CallsHelper (core/bin/zksync_api/src/api_server/web3/calls.rs): *)
(* the eth_call emulation of the ERC-20 surface of every fungible token and *)
(* of the zkSync NFT proxy, and the Base58 / IPFS CID helpers behind        *)
(* tokenURI.                                                                *)
(*                                                                          *)
(* Byte strings are sequences over 0..255.  A U256 is its 32 big-endian     *)
(* bytes, an H160 its 20 bytes, a TokenId (u32) its 4 big-endian bytes, so  *)
(* that no value exceeds the integers TLC computes with.                    *)
(***************************************************************************)
EXTENDS Integers, Sequences, FiniteSets, TLC

(***************************************************************************)
(* Bounds of the model.                                                     *)
(***************************************************************************)
\* a sample digest is MaxSplit-or-fewer bytes of one value, then another
MaxSplit == 2
\* longest free-form input handed to to_base58 (besides the 34-byte CIDs)
MaxSrcLen == 2
\* number of 32-byte argument words that may follow the selector
MaxArgWords == 2
\* largest NFT count / block number / creator id a storage answer carries
MaxAnswer == 1

(***************************************************************************)
(* Widths fixed by the types of the program.                                *)
(***************************************************************************)
WordLen == 32
AddressLen == 20
SelectorLen == 4
HashLen == 32
U32Len == 4

Zeros(n) == [i \in 1..n |-> 0]

Reverse(s) == [i \in 1..Len(s) |-> s[Len(s) + 1 - i]]

\* F(v), with v evaluated before F is entered.  The loops below run their
\* iterations in order over a range that is halved, not peeled one by one:
\* both keep the evaluation of a 34-byte, 46-digit conversion shallow.
Then(v, F(_)) == CHOOSE r \in { F(x) : x \in {v} } : TRUE

\* the big-endian bytes of a natural number, on n bytes
RECURSIVE BigEndian(_, _)
BigEndian(v, n) == IF n = 0 THEN <<>> ELSE Append(BigEndian(v \div 256, n - 1), v % 256)

(***************************************************************************)
(* Base58 and the IPFS CID (calls.rs 275-311).                              *)
(***************************************************************************)
SHA256_MULTI_HASH == <<18, 32>>

\* "123456789ABCDEFGHJKLMNPQRSTUVWXYZabcdefghijkmnopqrstuvwxyz" as bytes
ALPHABET ==
  <<49, 50, 51, 52, 53, 54, 55, 56, 57,
    65, 66, 67, 68, 69, 70, 71, 72, 74, 75, 76, 77, 78, 80, 81, 82, 83, 84,
    85, 86, 87, 88, 89, 90,
    97, 98, 99, 100, 101, 102, 103, 104, 105, 106, 107, 109, 110, 111, 112,
    113, 114, 115, 116, 117, 118, 119, 120, 121, 122>>

DIGITS_LEN_short == 46 - 1
\* let mut digits: [u8; 46]
DIGITS_LEN == 46

\* for j in 0..digit_length { carry += digits[j] * 256; digits[j] = carry % 58; carry /= 58 }
\* (carry is a u32 and never exceeds 255 + 57 * 256 + 255: it cannot wrap)
\* (the iterations j = lo .. hi - 1)
RECURSIVE b58_for(_, _, _, _)
b58_for(digits, lo, hi, carry) ==
  IF lo >= hi
    THEN [digits |-> digits, carry |-> carry]
    ELSE IF hi = lo + 1
      THEN LET c == carry + digits[lo + 1] * 256
           IN  [digits |-> [digits EXCEPT ![lo + 1] = c % 58], carry |-> c \div 58]
      ELSE LET mid == (lo + hi) \div 2
           IN  Then(b58_for(digits, lo, mid, carry),
                    LAMBDA left : b58_for(left.digits, mid, hi, left.carry))

\* while carry > 0 { digits[digit_length] = carry % 58; digit_length += 1; carry /= 58 }
\* indexing digits at DIGITS_LEN or beyond panics
RECURSIVE b58_while(_, _, _)
b58_while(digits, digit_length, carry) ==
  IF carry = 0
    THEN [digits |-> digits, digit_length |-> digit_length, carry |-> 0, panicked |-> FALSE]
    ELSE IF digit_length >= DIGITS_LEN
      THEN [digits |-> digits, digit_length |-> digit_length, carry |-> carry, panicked |-> TRUE]
      ELSE b58_while([digits EXCEPT ![digit_length + 1] = carry % 58],
                     digit_length + 1, carry \div 58)

\* one iteration of the outer loop of to_base58: one source byte
b58_byte(digits, digit_length, a) ==
  Then(b58_for(digits, 0, digit_length, a),
       LAMBDA f : b58_while(f.digits, digit_length, f.carry))

\* output.push(ALPHABET.as_bytes()[*i as usize] as char) for every index
to_alphabet(indices) == [i \in 1..Len(indices) |-> ALPHABET[indices[i] + 1]]

\* the state of to_base58 before the first source byte
b58_start == [digits |-> Zeros(DIGITS_LEN), digit_length |-> 1, carry |-> 0, panicked |-> FALSE]

\* for mut carry in source.iter(): the bytes source[lo..hi] in order; a panic
\* ends the run
RECURSIVE b58_loop(_, _, _, _)
b58_loop(st, source, lo, hi) ==
  IF lo > hi \/ st.panicked
    THEN st
    ELSE IF lo = hi
      THEN b58_byte(st.digits, st.digit_length, source[lo])
      ELSE LET mid == (lo + hi) \div 2
           IN  Then(b58_loop(st, source, lo, mid),
                    LAMBDA left : b58_loop(left, source, mid + 1, hi))

\* digits.iter().rev() handed to to_alphabet: all DIGITS_LEN digits
b58_finish(digits) == to_alphabet(Reverse(digits))

\* to_base58 as a function: the text, or a panic
to_base58(source) ==
  LET st == b58_loop(b58_start, source, 1, Len(source))
  IN  [panicked |-> st.panicked,
       text |-> IF st.panicked THEN <<>> ELSE b58_finish(st.digits)]

ipfs_cid_input_no_header(source) == source
\* lines 297-301: SHA256_MULTI_HASH chained with the digest
ipfs_cid_input(source) == SHA256_MULTI_HASH \o source

\* the CID: the multihash in Base58
ipfs_cid(source) == to_base58(ipfs_cid_input(source))

(***************************************************************************)
(* ABI values (ethabi) and the types of zksync_types used by execute.       *)
(***************************************************************************)
\* U256::from of a small unsigned value (u8, u32): 32 big-endian bytes
U256_from(v) == BigEndian(v, WordLen)

\* U256::max_value()
U256_max_value == [i \in 1..WordLen |-> 255]

\* U256::from(u32::MAX)
U256_u32_MAX == Zeros(WordLen - U32Len) \o [i \in 1..U32Len |-> 255]

\* a > b on U256, most significant byte first
RECURSIVE U256_gt_from(_, _, _)
U256_gt_from(a, b, i) ==
  IF i > WordLen THEN FALSE
  ELSE IF a[i] # b[i] THEN a[i] > b[i]
  ELSE U256_gt_from(a, b, i + 1)

U256_gt(a, b) == U256_gt_from(a, b, 1)

\* U256::as_u32 of a value that fits: the low four bytes
as_u32(v) == SubSeq(v, WordLen - U32Len + 1, WordLen)

\* an account address with one distinguishing byte
Addr(n) == Zeros(AddressLen - 1) \o <<n>>

\* AbiToken values
Uint(v) == [kind |-> "uint", val |-> v]
Address(a) == [kind |-> "address", val |-> a]
FixedBytes(b) == [kind |-> "fixed_bytes", val |-> b]
String(s) == [kind |-> "string", val |-> s]

\* zero bytes that fill len up to the next multiple of 32
Padding(len) == Zeros((WordLen - (len % WordLen)) % WordLen)

\* ethabi::encode of a one-token slice
encode(t) ==
  CASE t.kind = "uint" -> t.val
    [] t.kind = "address" -> Zeros(WordLen - AddressLen) \o t.val
    [] t.kind = "fixed_bytes" -> t.val \o Padding(Len(t.val))
    [] t.kind = "string" ->
         U256_from(WordLen) \o U256_from(Len(t.val)) \o t.val \o Padding(Len(t.val))

\* "ipfs://"
IPFS_SCHEME == <<105, 112, 102, 115, 58, 47, 47>>

(***************************************************************************)
(* The selector tables (calls.rs 33-80).                                    *)
(***************************************************************************)
Fn(name, inputs) == [name |-> name, inputs |-> inputs]

\* the functions of abi/ERC20.json
erc20_functions ==
  { Fn("name", <<>>), Fn("symbol", <<>>), Fn("decimals", <<>>),
    Fn("totalSupply", <<>>), Fn("balanceOf", <<"address">>),
    Fn("allowance", <<"address", "address">>) }

\* the functions of abi/ZkSyncProxy.json
zksync_proxy_functions ==
  { Fn("creatorId", <<"uint256">>), Fn("creatorAddress", <<"uint256">>),
    Fn("serialId", <<"uint256">>), Fn("contentHash", <<"uint256">>),
    Fn("tokenURI", <<"uint256">>), Fn("balanceOf", <<"address">>),
    Fn("ownerOf", <<"uint256">>), Fn("getApproved", <<"uint256">>) }

\* keccak256(signature)[0..4] of "name(inputs)" for the signatures in use
selector_of(f) ==
  CASE f.name = "name" -> <<6, 253, 222, 3>>
    [] f.name = "symbol" -> <<149, 216, 155, 65>>
    [] f.name = "decimals" -> <<49, 60, 229, 103>>
    [] f.name = "totalSupply" -> <<24, 22, 13, 221>>
    [] f.name = "balanceOf" -> <<112, 160, 130, 49>>
    [] f.name = "allowance" -> <<221, 98, 237, 62>>
    [] f.name = "creatorId" -> <<141, 106, 98, 178>>
    [] f.name = "creatorAddress" -> <<178, 169, 153, 199>>
    [] f.name = "serialId" -> <<226, 211, 40, 223>>
    [] f.name = "contentHash" -> <<243, 224, 194, 144>>
    [] f.name = "tokenURI" -> <<200, 123, 86, 221>>
    [] f.name = "ownerOf" -> <<99, 82, 33, 30>>
    [] f.name = "getApproved" -> <<8, 24, 18, 252>>

\* HashMap<[u8; 4], Function>: selector -> function
gen_hashmap(functions) ==
  [s \in {selector_of(f) : f \in functions} |->
     CHOOSE f \in functions : selector_of(f) = s]

erc20 == gen_hashmap(erc20_functions)

zksync_proxy == gen_hashmap(zksync_proxy_functions)

\* H160::from_str(ZKSYNC_PROXY_ADDRESS)
zksync_proxy_address == <<16>> \o Zeros(AddressLen - 1)

\* Function::decode_input: one 32-byte word per declared input; an address is
\* the low 20 bytes of its word; bytes after the last word are ignored
decode_input(f, bytes) ==
  IF Len(bytes) < WordLen * Len(f.inputs)
    THEN [ok |-> FALSE, params |-> <<>>]
    ELSE [ok |-> TRUE,
          params |-> [i \in 1..Len(f.inputs) |->
             LET word == SubSeq(bytes, WordLen * (i - 1) + 1, WordLen * i)
             IN  IF f.inputs[i] = "address"
                   THEN Address(SubSeq(word, WordLen - AddressLen + 1, WordLen))
                   ELSE Uint(word)]]

(***************************************************************************)
(* Inputs and storage answers the model draws from.                         *)
(***************************************************************************)
\* 32-byte argument words: 0, 1, u32::MAX, 2^32, 2^32 + 1, 2^256 - 1
SampleWords ==
  { U256_from(0), U256_from(1), U256_u32_MAX,
    Zeros(WordLen - U32Len - 1) \o <<1, 0, 0, 0, 0>>,
    Zeros(WordLen - U32Len - 1) \o <<1, 0, 0, 0, 1>>,
    U256_max_value }

RECURSIVE Repeat(_, _)
Repeat(w, n) == IF n = 0 THEN <<>> ELSE w \o Repeat(w, n - 1)

\* the bytes after the selector: whole words, or a word cut one byte short
ArgBytes ==
  { Repeat(w, n) : w \in SampleWords, n \in 0..MaxArgWords }
    \cup { SubSeq(w, 1, WordLen - 1) : w \in {U256_from(1), U256_max_value} }

\* transfer(address,uint256): a selector of neither table
UnknownSelector == <<169, 5, 156, 187>>

Selectors == DOMAIN erc20 \cup DOMAIN zksync_proxy \cup {UnknownSelector}

Payloads ==
  { SubSeq(sel, 1, k) : sel \in Selectors, k \in 0..(SelectorLen - 1) }
    \cup { sel \o a : sel \in Selectors, a \in ArgBytes }

Destinations == {zksync_proxy_address, Addr(1), Addr(2)}

\* 32-byte digests: k bytes of a, then bytes of b
SampleBytes == {0, 1, 127, 255}

Digest(a, b, k) == [i \in 1..HashLen |-> IF i <= k THEN a ELSE b]

\* digests without a repeated byte pattern
Ramp(m, a) == [i \in 1..HashLen |-> (i * m + a) % 256]

Digests ==
  { Digest(a, b, k) : a \in SampleBytes, b \in SampleBytes, k \in 0..MaxSplit }
    \cup { Ramp(m, a) : m \in {7, 37, 101}, a \in SampleBytes }

\* token records of the token cache: "ETH", "USDC", and an NFT record
Tokens ==
  { [id |-> 0, symbol |-> <<69, 84, 72>>, decimals |-> 18, is_nft |-> FALSE],
    [id |-> 2, symbol |-> <<85, 83, 68, 67>>, decimals |-> 6, is_nft |-> FALSE],
    [id |-> 65537, symbol |-> <<78, 70, 84>>, decimals |-> 0, is_nft |-> TRUE] }

NoToken == [id |-> 0, symbol |-> <<>>, decimals |-> 0, is_nft |-> FALSE]

\* Result<Option<Token>> of get_token
TokenAnswers ==
  { [ok |-> FALSE, found |-> FALSE, val |-> NoToken],
    [ok |-> TRUE, found |-> FALSE, val |-> NoToken] }
    \cup { [ok |-> TRUE, found |-> TRUE, val |-> t] : t \in Tokens }

NoNft ==
  [id |-> Zeros(U32Len), creator_id |-> 0, creator_address |-> Addr(0),
   serial_id |-> 0, content_hash |-> Zeros(HashLen)]

\* the NFT records storage may hold under a token id
Nfts(id) ==
  { [id |-> id, creator_id |-> c, creator_address |-> Addr(c + 3),
     serial_id |-> c + 7, content_hash |-> h] : c \in 0..MaxAnswer, h \in Digests }

\* Result<Option<NFT>> of get_nft_by_id
NftAnswers(id) ==
  { [ok |-> FALSE, found |-> FALSE, val |-> NoNft],
    [ok |-> TRUE, found |-> FALSE, val |-> NoNft] }
    \cup { [ok |-> TRUE, found |-> TRUE, val |-> n] : n \in Nfts(id) }

\* Result<u32>, Result<BlockNumber>: an error or a number
NumberAnswers ==
  {[ok |-> FALSE, val |-> 0]} \cup { [ok |-> TRUE, val |-> n] : n \in 0..MaxAnswer }

\* Result<Address> of get_nft_owner
OwnerAnswers ==
  {[ok |-> FALSE, val |-> Addr(0)]} \cup { [ok |-> TRUE, val |-> Addr(n + 3)] : n \in 0..MaxAnswer }

\* BigUint balances, big-endian: 0, 1, 2^256 - 1 and 2^256
BigUints == { <<>>, <<1>>, U256_max_value, <<1>> \o Zeros(WordLen) }

\* Result<BigUint> of get_account_balance_for_block
BalanceAnswers ==
  {[ok |-> FALSE, val |-> <<>>]} \cup { [ok |-> TRUE, val |-> b] : b \in BigUints }

\* converter::u256_from_biguint: an internal error above 256 bits
u256_from_biguint(b) ==
  IF Len(b) > WordLen
    THEN [ok |-> FALSE, val |-> Zeros(WordLen)]
    ELSE [ok |-> TRUE, val |-> Zeros(WordLen - Len(b)) \o b]

(***************************************************************************)
(* State.  One execute call: its arguments, its position (the storage query *)
(* it is about to await), its locals, the queries issued so far, and its    *)
(* result.  One to_base58 run: its source, loop index and accumulator.      *)
(***************************************************************************)
VARIABLES
  pc,            \* "start", the query awaited next, or "done" ("off": no call)
  to,            \* destination address
  data,          \* payload
  function,      \* name of the matched function, "" before the match
  params,        \* decoded parameters
  nft,           \* the NFT found by get_nft (ownerOf)
  token,         \* the record of the second token lookup (fungible handlers)
  block,         \* the last saved block (fungible balanceOf)
  queries,       \* the storage queries issued, in order
  result,        \* [kind |-> "none" | "ok" | "err", bytes]
  b58pc,         \* "loop", "done" or "panic" ("off": no run)
  source,        \* input of to_base58
  idx,           \* number of source bytes consumed
  digits,        \* the accumulator
  digit_length,  \* digits in use
  carry,         \* carry left by the last iteration
  text           \* the output of to_base58

execVars == <<pc, to, data, function, params, nft, token, block, queries, result>>

b58Vars == <<b58pc, source, idx, digits, digit_length, carry, text>>

vars == <<pc, to, data, function, params, nft, token, block, queries, result,
          b58pc, source, idx, digits, digit_length, carry, text>>

NoResult == [kind |-> "none", bytes |-> <<>>]
\* Ok(bytes)
Ok(bytes) == [kind |-> "ok", bytes |-> bytes]
\* Ok(Vec::new())
Empty == Ok(<<>>)
\* Err(Error::internal_error())
InternalError == [kind |-> "err", bytes |-> <<>>]

\* a storage query as the log keeps it: the call, its arguments (address or
\* token id bytes, block, token id) and the kind of answer it got
Query(call, arg, blk, tok, answer) ==
  [call |-> call, arg |-> arg, block |-> blk, token |-> tok, answer |-> answer]

\* the kind of an answer: "err", or what an Ok carries
Kind(ans) == IF ans.ok THEN "ok" ELSE "err"

OptionKind(ans) == IF ~ans.ok THEN "err" ELSE IF ans.found THEN "some" ELSE "none"

TokenKind(ans) ==
  IF ~ans.ok THEN "err"
  ELSE IF ~ans.found THEN "none"
  ELSE IF ans.val.is_nft THEN "nft" ELSE "fungible"

ExecIdle ==
  /\ pc = "off" /\ to = <<>> /\ data = <<>> /\ function = "" /\ params = <<>>
  /\ nft = NoNft /\ token = NoToken /\ block = 0 /\ queries = <<>>
  /\ result = NoResult

B58Idle ==
  /\ b58pc = "off" /\ source = <<>> /\ idx = 0 /\ digits = <<>>
  /\ digit_length = 0 /\ carry = 0 /\ text = <<>>

\* a call of execute(storage, to, data)
Init ==
  /\ pc = "start"
  /\ to \in Destinations
  /\ data \in Payloads
  /\ function = "" /\ params = <<>>
  /\ nft = NoNft /\ token = NoToken /\ block = 0
  /\ queries = <<>>
  /\ result = NoResult
  /\ B58Idle

\* return from execute
Return(r) ==
  /\ pc' = "done"
  /\ result' = r

(***************************************************************************)
(* execute, lines 106-120: selector, table lookup, argument decoding.       *)
(***************************************************************************)
\* an early return of execute: no function is dispatched
EarlyReturn(r) == [matched |-> FALSE, name |-> "", params |-> <<>>, ret |-> r]

Matched(f, ps) == [matched |-> TRUE, name |-> f.name, params |-> ps, ret |-> NoResult]

select_short_is_error(all_functions, d) ==
  IF Len(d) < SelectorLen
    THEN EarlyReturn(InternalError)
    ELSE LET selector == SubSeq(d, 1, SelectorLen)
         IN  IF selector \notin DOMAIN all_functions
               THEN EarlyReturn(Empty)
               ELSE LET f == all_functions[selector]
                        dec == decode_input(f, SubSeq(d, SelectorLen + 1, Len(d)))
                    IN  IF ~dec.ok THEN EarlyReturn(Empty) ELSE Matched(f, dec.params)

select(all_functions, d) ==
  IF Len(d) < SelectorLen
    THEN EarlyReturn(Empty)
    ELSE LET selector == SubSeq(d, 1, SelectorLen)
         IN  IF selector \notin DOMAIN all_functions
               THEN EarlyReturn(Empty)
               ELSE LET f == all_functions[selector]
                        dec == decode_input(f, SubSeq(d, SelectorLen + 1, Len(d)))
                    IN  IF ~dec.ok THEN EarlyReturn(Empty) ELSE Matched(f, dec.params)

\* the proxy functions that take a token id and go through get_nft
NftFunctions ==
  {"creatorId", "creatorAddress", "serialId", "contentHash", "tokenURI",
   "ownerOf", "getApproved"}

get_nft_in_range_unchecked(token_id) == TRUE
\* get_nft, lines 264-266: ids above u32::MAX are not looked up
get_nft_in_range(token_id) == ~U256_gt(token_id, U256_u32_MAX)

\* AbiToken::into_uint, into_address: None for a token of another kind
into_uint(t) == [some |-> t.kind = "uint", val |-> t.val]

into_address(t) == [some |-> t.kind = "address", val |-> t.val]

(***************************************************************************)
(* execute on the proxy address, up to its first storage query              *)
(* (lines 88-89, 106-129, 180-184, 264-266).                                *)
(***************************************************************************)
RouteProxy ==
  /\ pc = "start"
  /\ to = zksync_proxy_address
  /\ LET m == select(zksync_proxy, data)
     IN  /\ function' = m.name
         /\ params' = m.params
         /\ IF ~m.matched
              THEN Return(m.ret)
              ELSE IF m.name \in NftFunctions
                THEN LET token_id == into_uint(m.params[1])
                     IN  IF ~token_id.some THEN Return(InternalError)
                         ELSE IF ~get_nft_in_range(token_id.val) THEN Return(Empty)
                         ELSE pc' = "get_nft_by_id" /\ result' = result
                ELSE \* "balanceOf"
                     IF ~into_address(m.params[1]).some THEN Return(InternalError)
                     ELSE pc' = "get_account_nft_balance" /\ result' = result
  /\ UNCHANGED <<to, data, nft, token, block, queries>>
  /\ UNCHANGED b58Vars

\* what a proxy handler encodes once get_nft has found the NFT
nft_reply(name, n) ==
  CASE name = "creatorId" -> encode(Uint(U256_from(n.creator_id)))
    [] name = "creatorAddress" -> encode(Address(n.creator_address))
    [] name = "serialId" -> encode(Uint(U256_from(n.serial_id)))
    [] name = "contentHash" -> encode(FixedBytes(n.content_hash))
    [] name = "tokenURI" -> encode(String(IPFS_SCHEME \o ipfs_cid(n.content_hash).text))
    [] name = "getApproved" -> encode(Address(zksync_proxy_address))

get_nft_result_error_as_none(ans) == [err |-> FALSE, found |-> ans.ok /\ ans.found]
\* get_nft, lines 267-272: map_err(|_| Error::internal_error())?, then Ok(nft)
get_nft_result(ans) == [err |-> ~ans.ok, found |-> ans.ok /\ ans.found]

\* get_nft's query and the rest of the handler (lines 267-272, 129-222)
GetNftById ==
  /\ pc = "get_nft_by_id"
  /\ LET id == as_u32(params[1].val)
     IN  \E ans \in NftAnswers(id) :
           /\ queries' = Append(queries, Query("get_nft_by_id", id, 0, 0, OptionKind(ans)))
           /\ LET r == get_nft_result(ans)
              IN  IF r.err THEN Return(InternalError) /\ nft' = nft
                  ELSE IF ~r.found THEN Return(Empty) /\ nft' = nft
                  ELSE IF function = "ownerOf"
                    THEN pc' = "get_nft_owner" /\ nft' = ans.val /\ result' = result
                    ELSE Return(Ok(nft_reply(function, ans.val))) /\ nft' = ans.val
  /\ UNCHANGED <<to, data, function, params, token, block>>
  /\ UNCHANGED b58Vars

\* ownerOf, lines 199-205
GetNftOwner ==
  /\ pc = "get_nft_owner"
  /\ \E ans \in OwnerAnswers :
       /\ queries' = Append(queries, Query("get_nft_owner", nft.id, 0, 0, Kind(ans)))
       /\ IF ~ans.ok THEN Return(InternalError)
          ELSE Return(Ok(encode(Address(ans.val))))
  /\ UNCHANGED <<to, data, function, params, nft, token, block>>
  /\ UNCHANGED b58Vars

\* proxy balanceOf, lines 185-191
GetAccountNftBalance ==
  /\ pc = "get_account_nft_balance"
  /\ \E ans \in NumberAnswers :
       /\ queries' = Append(queries,
            Query("get_account_nft_balance", params[1].val, 0, 0, Kind(ans)))
       /\ IF ~ans.ok THEN Return(InternalError)
          ELSE Return(Ok(encode(Uint(U256_from(ans.val)))))
  /\ UNCHANGED <<to, data, function, params, nft, token, block>>
  /\ UNCHANGED b58Vars

(***************************************************************************)
(* execute on any other address (lines 90-120, 224-255).                    *)
(***************************************************************************)
route_nft_as_erc20(ans) ==
  IF ~ans.ok THEN "error" ELSE IF ans.found THEN "erc20" ELSE "empty"
\* lines 91-104: the handler set for the token record found at `to`
route(ans) ==
  IF ~ans.ok THEN "error"
  ELSE IF ans.found /\ ~ans.val.is_nft THEN "erc20"
  ELSE "empty"

\* the first token lookup, then selector and argument decoding
RouteToken ==
  /\ pc = "start"
  /\ to # zksync_proxy_address
  /\ \E ans \in TokenAnswers :
       /\ queries' = Append(queries, Query("get_token", to, 0, ans.val.id, TokenKind(ans)))
       /\ LET r == route(ans)
              m == select(erc20, data)
          IN  IF r = "error" THEN Return(InternalError) /\ UNCHANGED <<function, params>>
              ELSE IF r = "empty" THEN Return(Empty) /\ UNCHANGED <<function, params>>
              ELSE /\ function' = m.name
                   /\ params' = m.params
                   /\ IF ~m.matched THEN Return(m.ret)
                      ELSE pc' = "get_token" /\ result' = result
  /\ UNCHANGED <<to, data, nft, token, block>>
  /\ UNCHANGED b58Vars

second_lookup_none_is_empty(ans) ==
  IF ~ans.ok THEN InternalError ELSE IF ~ans.found THEN Empty ELSE NoResult
\* lines 224-229: map_err(..)? and ok_or_else(Error::internal_error)?
second_lookup(ans) ==
  IF ~ans.ok \/ ~ans.found THEN InternalError ELSE NoResult

erc20_reply_zero_supply(name, t) ==
  CASE name \in {"name", "symbol"} -> encode(String(t.symbol))
    [] name = "decimals" -> encode(Uint(U256_from(t.decimals)))
    [] name \in {"totalSupply", "allowance"} -> encode(Uint(U256_from(0)))
\* lines 231-233: the handlers that need no further query
erc20_reply(name, t) ==
  CASE name \in {"name", "symbol"} -> encode(String(t.symbol))
    [] name = "decimals" -> encode(Uint(U256_from(t.decimals)))
    [] name \in {"totalSupply", "allowance"} -> encode(Uint(U256_max_value))

\* the second token lookup and the handlers of lines 230-233
GetToken ==
  /\ pc = "get_token"
  /\ \E ans \in TokenAnswers :
       /\ queries' = Append(queries, Query("get_token", to, 0, ans.val.id, TokenKind(ans)))
       /\ LET e == second_lookup(ans)
          IN  IF e # NoResult THEN Return(e) /\ token' = token
              ELSE IF function = "balanceOf"
                THEN pc' = "get_last_saved_block" /\ token' = ans.val /\ result' = result
                ELSE Return(Ok(erc20_reply(function, ans.val))) /\ token' = ans.val
  /\ UNCHANGED <<to, data, function, params, nft, block>>
  /\ UNCHANGED b58Vars

\* fungible balanceOf, lines 235-244
GetLastSavedBlock ==
  /\ pc = "get_last_saved_block"
  /\ \E ans \in NumberAnswers :
       /\ queries' = Append(queries, Query("get_last_saved_block", <<>>, ans.val, 0, Kind(ans)))
       /\ IF ~ans.ok THEN Return(InternalError) /\ block' = block
          ELSE IF ~into_address(params[1]).some THEN Return(InternalError) /\ block' = block
          ELSE pc' = "get_account_balance_for_block" /\ block' = ans.val /\ result' = result
  /\ UNCHANGED <<to, data, function, params, nft, token>>
  /\ UNCHANGED b58Vars

balance_query_block_zero(address, blk, t, answer) ==
  Query("get_account_balance_for_block", address, 0, t.id, answer)
\* lines 245-248: get_account_balance_for_block(address, block, token.id)
balance_query(address, blk, t, answer) ==
  Query("get_account_balance_for_block", address, blk, t.id, answer)

\* fungible balanceOf, lines 245-251
GetAccountBalanceForBlock ==
  /\ pc = "get_account_balance_for_block"
  /\ \E ans \in BalanceAnswers :
       /\ queries' = Append(queries, balance_query(params[1].val, block, token, Kind(ans)))
       /\ IF ~ans.ok THEN Return(InternalError)
          ELSE LET v == u256_from_biguint(ans.val)
               IN  IF ~v.ok THEN Return(InternalError)
                   ELSE Return(Ok(encode(Uint(v.val))))
  /\ UNCHANGED <<to, data, function, params, nft, token, block>>
  /\ UNCHANGED b58Vars

Next ==
  \/ RouteProxy
  \/ RouteToken
  \/ GetNftById
  \/ GetNftOwner
  \/ GetAccountNftBalance
  \/ GetToken
  \/ GetLastSavedBlock
  \/ GetAccountBalanceForBlock

Spec == Init /\ [][Next]_vars

(***************************************************************************)
(* to_base58 run one source byte at a time (lines 275-294).                 *)
(***************************************************************************)
\* the 34-byte inputs of ipfs_cid, and free-form inputs up to MaxSrcLen bytes
RECURSIVE SeqsOfLen(_, _)
SeqsOfLen(S, n) ==
  IF n = 0 THEN {<<>>}
  ELSE { Append(q, x) : q \in SeqsOfLen(S, n - 1), x \in S }

CidSources == { ipfs_cid_input(h) : h \in Digests }

ShortSources == UNION { SeqsOfLen(SampleBytes, n) : n \in 1..MaxSrcLen }

\* longer inputs: 33 and 34 bytes that need 46 digits, 35 bytes that need more
LongSources ==
  { <<255>> \o Zeros(HashLen), <<1>> \o Zeros(HashLen + 1), <<255>> \o Zeros(HashLen + 1),
    <<1>> \o Zeros(HashLen + 2) }

InitB58 ==
  /\ ExecIdle
  /\ b58pc = "loop"
  /\ source \in CidSources \cup ShortSources \cup LongSources
  /\ idx = 0
  /\ digits = b58_start.digits
  /\ digit_length = b58_start.digit_length
  /\ carry = 0
  /\ text = <<>>

\* one iteration of `for mut carry in source.iter()`
B58Byte ==
  /\ b58pc = "loop"
  /\ idx < Len(source)
  /\ LET st == b58_byte(digits, digit_length, source[idx + 1])
     IN  /\ digits' = st.digits
         /\ digit_length' = st.digit_length
         /\ carry' = st.carry
         /\ b58pc' = IF st.panicked THEN "panic" ELSE "loop"
  /\ idx' = idx + 1
  /\ UNCHANGED <<source, text>>
  /\ UNCHANGED execVars

\* lines 292-293: reverse the digits and map them to the alphabet
B58Finish ==
  /\ b58pc = "loop"
  /\ idx = Len(source)
  /\ text' = b58_finish(digits)
  /\ b58pc' = "done"
  /\ UNCHANGED <<source, idx, digits, digit_length, carry>>
  /\ UNCHANGED execVars

NextB58 ==
  \/ B58Byte
  \/ B58Finish

SpecB58 == InitB58 /\ [][NextB58]_vars

(***************************************************************************)
(* The reference Base58 decoder the properties are stated with: every       *)
(* leading '1' is one leading zero byte, the text is a big-endian base-58   *)
(* number.                                                                  *)
(***************************************************************************)
InAlphabet(c) == \E i \in 1..Len(ALPHABET) : ALPHABET[i] = c

DigitOf(c) == (CHOOSE i \in 1..Len(ALPHABET) : ALPHABET[i] = c) - 1

RECURSIVE LeadingCount(_, _, _)
LeadingCount(s, x, i) ==
  IF i > Len(s) \/ s[i] # x THEN 0 ELSE 1 + LeadingCount(s, x, i + 1)

\* bytes (little-endian) := bytes * 58 + c over the bytes lo..hi, in order
RECURSIVE DecodeMul(_, _, _, _)
DecodeMul(bytes, lo, hi, c) ==
  IF lo > hi THEN [bytes |-> bytes, carry |-> c]
  ELSE IF lo = hi
    THEN LET v == c + bytes[lo] * 58
         IN  [bytes |-> [bytes EXCEPT ![lo] = v % 256], carry |-> v \div 256]
    ELSE LET mid == (lo + hi) \div 2
         IN  Then(DecodeMul(bytes, lo, mid, c),
                  LAMBDA left : DecodeMul(left.bytes, mid + 1, hi, left.carry))

RECURSIVE DecodePush(_, _)
DecodePush(bytes, c) ==
  IF c = 0 THEN bytes ELSE DecodePush(Append(bytes, c % 256), c \div 256)

DecodeDigit(bytes, d) ==
  Then(DecodeMul(bytes, 1, Len(bytes), d), LAMBDA m : DecodePush(m.bytes, m.carry))

\* the characters s[lo..hi] in order
RECURSIVE DecodeFrom(_, _, _, _)
DecodeFrom(s, lo, hi, bytes) ==
  IF lo > hi THEN bytes
  ELSE IF lo = hi THEN DecodeDigit(bytes, DigitOf(s[lo]))
  ELSE LET mid == (lo + hi) \div 2
       IN  Then(DecodeFrom(s, lo, mid, bytes), LAMBDA left : DecodeFrom(s, mid + 1, hi, left))

from_base58(s) == Zeros(LeadingCount(s, ALPHABET[1], 1)) \o Reverse(DecodeFrom(s, 1, Len(s), <<>>))

IsBase58Text(s) == \A i \in 1..Len(s) : InAlphabet(s[i])

(***************************************************************************)
(* What the properties read off a finished call.                            *)
(***************************************************************************)
Done == pc = "done"

OnProxy == to = zksync_proxy_address

HasSelector(name, inputs) ==
  /\ Len(data) >= SelectorLen
  /\ SubSeq(data, 1, SelectorLen) = selector_of(Fn(name, inputs))

\* the i-th 32-byte argument word of the payload
ArgWord(i) == SubSeq(data, SelectorLen + WordLen * (i - 1) + 1, SelectorLen + WordLen * i)

Failed(q) == q.answer = "err"

\* the queries issued on storage directly, not through the token cache
Direct == SelectSeq(queries, LAMBDA q : q.call \notin {"get_token", "get_nft_by_id"})

MaxWord == [i \in 1..WordLen |-> 255]

(***************************************************************************)
(* C1.  A payload of fewer than 4 bytes.                                    *)
(***************************************************************************)
\* C1 as stated: for every destination, execute with a payload shorter than 4
\* bytes ends with the empty byte sequence, never with an internal error.
C1_ShortPayloadAlwaysEmpty ==
  (Done /\ Len(data) < SelectorLen) => result = Empty

\* C1 as amended: with a payload shorter than 4 bytes execute never returns
\* non-empty bytes; on the proxy address it returns the empty result without
\* any query; on another address it issues the routing token lookup only, and
\* returns the internal error exactly when that lookup fails.
C1_ShortPayload ==
  (Done /\ Len(data) < SelectorLen) =>
     /\ result.kind \in {"ok", "err"}
     /\ result.bytes = <<>>
     /\ OnProxy => (queries = <<>> /\ result.kind = "ok")
     /\ ~OnProxy =>
          /\ Len(queries) = 1
          /\ queries[1].call = "get_token"
          /\ queries[1].arg = to
          /\ (result.kind = "err") <=> Failed(queries[1])

C1_Witness ==
  /\ Done /\ Len(data) = SelectorLen - 1 /\ ~OnProxy
  /\ Len(queries) = 1 /\ queries[1].answer = "fungible"
  /\ result = Empty

(***************************************************************************)
(* C2.  A failing storage query ends the call with the internal error.      *)
(***************************************************************************)
\* C2: a query that fails is the last query of its call, and the call is
\* over with the internal error: not running on, not an empty result, not
\* encoded bytes.
C2_FailurePropagates ==
  \A i \in 1..Len(queries) :
     Failed(queries[i]) =>
        /\ i = Len(queries)
        /\ Done
        /\ result.kind = "err"

C2_Witness ==
  /\ Done
  /\ Len(queries) = 2
  /\ queries[1].call = "get_nft_by_id" /\ ~Failed(queries[1])
  /\ queries[2].call = "get_nft_owner" /\ Failed(queries[2])
  /\ result = InternalError

C2_WitnessBalance ==
  /\ Done
  /\ Len(queries) = 4
  /\ queries[4].call = "get_account_balance_for_block" /\ Failed(queries[4])

(***************************************************************************)
(* C3.  tokenURI.                                                           *)
(***************************************************************************)
\* the string inside the ABI encoding of one string: offset word 32, length
\* word, the bytes, zero padding to a multiple of 32
IsAbiString(b) ==
  /\ Len(b) >= 2 * WordLen
  /\ Len(b) % WordLen = 0
  /\ \A i \in 1..(WordLen - 1) : b[i] = 0
  /\ b[WordLen] = WordLen
  /\ \A i \in (WordLen + 1)..(2 * WordLen - 1) : b[i] = 0
  /\ 2 * WordLen + b[2 * WordLen] <= Len(b)
  /\ Len(b) - (2 * WordLen + b[2 * WordLen]) < WordLen
  /\ \A i \in (2 * WordLen + b[2 * WordLen] + 1)..Len(b) : b[i] = 0

AbiStringOf(b) == SubSeq(b, 2 * WordLen + 1, 2 * WordLen + b[2 * WordLen])

\* C3: tokenURI of an existing NFT with content hash H is the ABI encoding of
\* "ipfs://" followed by Base58 text that the reference decoder turns back
\* into the 34 bytes {0x12, 0x20} ++ H.
C3_TokenUri ==
  (Done /\ OnProxy /\ function = "tokenURI" /\ nft # NoNft) =>
     /\ result.kind = "ok"
     /\ IsAbiString(result.bytes)
     /\ LET str == AbiStringOf(result.bytes)
            cid == SubSeq(str, Len(IPFS_SCHEME) + 1, Len(str))
        IN  /\ Len(str) > Len(IPFS_SCHEME)
            /\ SubSeq(str, 1, Len(IPFS_SCHEME)) = <<105, 112, 102, 115, 58, 47, 47>>
            /\ IsBase58Text(cid)
            /\ from_base58(cid) = <<18, 32>> \o nft.content_hash

C3_Witness ==
  /\ Done /\ OnProxy /\ function = "tokenURI" /\ nft # NoNft
  /\ nft.content_hash[1] = 255 /\ nft.content_hash[HashLen] = 0
  /\ result.kind = "ok" /\ Len(result.bytes) = 4 * WordLen

(***************************************************************************)
(* C4.  Base58 round trip on arbitrary input.                               *)
(***************************************************************************)
\* C4: for every non-empty input that to_base58 accepts, the reference
\* decoder applied to its output gives the input back, byte for byte.
C4_RoundTrip ==
  (b58pc = "done" /\ Len(source) > 0) => from_base58(text) = source

(***************************************************************************)
(* C5.  totalSupply and allowance of a fungible token.                      *)
(***************************************************************************)
SupplyCall == HasSelector("totalSupply", <<>>) \/ HasSelector("allowance", <<"address", "address">>)

RoutedFungible == ~OnProxy /\ Len(queries) >= 1 /\ queries[1].answer = "fungible"

\* C5 as stated: on a destination that resolves to a fungible token, a
\* payload with the selector of totalSupply or allowance always returns the
\* encoding of 2^256 - 1, whatever follows the selector.
C5_SupplyAlwaysMax ==
  (Done /\ RoutedFungible /\ SupplyCall) => result = Ok(MaxWord)

\* the bytes after the selector decode against the inputs the function declares
SupplyArgsDecode ==
  decode_input(erc20[SubSeq(data, 1, SelectorLen)],
               SubSeq(data, SelectorLen + 1, Len(data))).ok

\* C5 as amended: on such a destination and selector the call returns the
\* encoding of 2^256 - 1 whenever the bytes after the selector decode
\* against the declared inputs (always, for a function that declares none)
\* and the second token lookup finds a record; it returns the
\* empty result when they do not decode, and the internal error when the
\* second lookup fails or finds no record.
C5_SupplyMax ==
  (Done /\ RoutedFungible /\ SupplyCall) =>
     IF ~SupplyArgsDecode
       THEN result = Empty /\ Len(queries) = 1
       ELSE /\ Len(queries) = 2
            /\ IF queries[2].answer \in {"err", "none"}
                 THEN result = InternalError
                 ELSE result = Ok(MaxWord)

C5_Witness ==
  /\ Done /\ RoutedFungible
  /\ HasSelector("allowance", <<"address", "address">>)
  /\ Len(data) = SelectorLen + 2 * WordLen
  /\ ArgWord(1) = MaxWord
  /\ result = Ok(MaxWord)

(***************************************************************************)
(* C6.  Token ids above u32::MAX on the proxy.                              *)
(***************************************************************************)
TokenIdCall == \E name \in NftFunctions : HasSelector(name, <<"uint256">>)

\* the first argument word is a number above 2^32 - 1
TokenIdAbove32Bits ==
  /\ Len(data) >= SelectorLen + WordLen
  /\ \E i \in 1..(WordLen - U32Len) : ArgWord(1)[i] # 0

\* C6: a proxy function that takes a token id, called with an id above
\* 2^32 - 1, ends with the empty result, not an error, and without any
\* storage query.
C6_TokenIdOutOfRange ==
  (OnProxy /\ TokenIdCall /\ TokenIdAbove32Bits /\ pc # "start") =>
     /\ Done
     /\ result = Empty
     /\ queries = <<>>

C6_Witness ==
  /\ Done /\ OnProxy /\ HasSelector("ownerOf", <<"uint256">>)
  /\ Len(data) = SelectorLen + WordLen
  /\ ArgWord(1) = Zeros(WordLen - U32Len - 1) \o <<1, 0, 0, 0, 1>>
  /\ function = "ownerOf"
  /\ result = Empty

(***************************************************************************)
(* C7.  No token record, or an NFT record, at a non-proxy destination.      *)
(***************************************************************************)
ProxyQueries == {"get_nft_by_id", "get_nft_owner", "get_account_nft_balance"}

\* C7: off the proxy address, a token lookup that finds no record or an NFT
\* record ends the call with the empty result and no further query; the
\* proxy handlers and their queries occur on the proxy address only.
C7_UnroutedIsEmpty ==
  /\ (~OnProxy /\ Len(queries) >= 1 /\ queries[1].answer \in {"none", "nft"}) =>
        /\ Done
        /\ result = Empty
        /\ Len(queries) = 1
        /\ function = ""
  /\ ~OnProxy =>
        /\ \A i \in 1..Len(queries) : queries[i].call \notin ProxyQueries
        /\ function \notin NftFunctions

C7_Witness ==
  /\ Done /\ ~OnProxy
  /\ Len(queries) = 1 /\ queries[1].answer = "nft"
  /\ HasSelector("ownerOf", <<"uint256">>) /\ Len(data) = SelectorLen + WordLen
  /\ result = Empty

(***************************************************************************)
(* C8.  The number and order of storage queries.                            *)
(***************************************************************************)
FungibleBalanceOf == ~OnProxy /\ function = "balanceOf"

\* C8 as stated: a finished fungible balanceOf call has issued exactly two
\* queries, the last-block lookup and then the balance lookup at that block;
\* every other call has issued at most one query.
C8_TwoQueriesElseOne ==
  Done =>
     IF FungibleBalanceOf /\ result.kind = "ok"
       THEN /\ Len(queries) = 2
            /\ queries[1].call = "get_last_saved_block"
            /\ queries[2].call = "get_account_balance_for_block"
       ELSE Len(queries) <= 1

\* C8 as amended: counting the queries execute issues on storage directly
\* (not the token and NFT lookups that go through the token cache), fungible
\* balanceOf issues at most two, the last-block lookup and then the balance
\* lookup at the block it returned, both whenever the last-block lookup
\* succeeds, and every other path issues at most one.  With the cache
\* lookups counted, a call issues at most four queries: two token lookups
\* before the direct ones off the proxy, one NFT lookup before the owner
\* lookup on the proxy.
C8_QueryCounts ==
  /\ Len(Direct) <= 2
  /\ Len(Direct) = 2 =>
        /\ FungibleBalanceOf
        /\ Direct[1].call = "get_last_saved_block" /\ ~Failed(Direct[1])
        /\ Direct[2].call = "get_account_balance_for_block"
        /\ Direct[2].block = Direct[1].block
        /\ Direct[2].token = queries[2].token
  /\ (Done /\ Len(Direct) >= 1 /\ Direct[1].call = "get_last_saved_block"
        /\ ~Failed(Direct[1])) => Len(Direct) = 2
  /\ ~FungibleBalanceOf => Len(Direct) <= 1
  /\ Len(queries) - Len(Direct) <= (IF OnProxy THEN 1 ELSE 2)
  /\ \A i \in 1..Len(queries) :
        queries[i].call \in {"get_token", "get_nft_by_id"} => i <= Len(queries) - Len(Direct)

C8_Witness ==
  /\ Done /\ FungibleBalanceOf /\ result.kind = "ok"
  /\ Len(queries) = 4 /\ Len(Direct) = 2
  /\ Direct[1].block = 1 /\ Direct[2].block = 1
  /\ Direct[2].token = 2

(***************************************************************************)
(* C9.  The 46-digit accumulator and the CID inputs.                        *)
(***************************************************************************)
IsCidSource ==
  /\ Len(source) = Len(SHA256_MULTI_HASH) + HashLen
  /\ SubSeq(source, 1, 2) = <<18, 32>>

\* C9: while to_base58 encodes {0x12, 0x20} ++ H, digit_length never exceeds
\* 46, no digit is written at index 46 or beyond (no panic), every carry is
\* used up, every digit is in 0..57, and the text has one alphabet character
\* per digit.
C9_AccumulatorFits ==
  (b58pc # "off" /\ IsCidSource) =>
     /\ b58pc # "panic"
     /\ digit_length <= 46
     /\ carry = 0
     /\ \A i \in 1..Len(digits) : digits[i] \in 0..57
     /\ b58pc = "done" => (Len(text) = 46 /\ IsBase58Text(text))

C9_Witness ==
  /\ b58pc = "done" /\ IsCidSource
  /\ source[3] = 255 /\ source[Len(source)] = 255
  /\ digit_length = 46
  /\ digits[46] # 0

(***************************************************************************)
(* C10.  The two token lookups of a call off the proxy.                     *)
(***************************************************************************)
RecordOf(q) == CHOOSE t \in Tokens : t.id = q.token

\* C10: off the proxy address the token is looked up for routing and again
\* after selector match and decoding; the handler answers from the second
\* record (symbol, decimals, the token id of the balance query); a second
\* lookup that finds no record gives the internal error; a second record
\* flagged NFT still runs the fungible handler.
C10_SecondLookup ==
  /\ (~OnProxy /\ Done /\ function # "") => Len(queries) >= 2
  /\ (~OnProxy /\ Len(queries) >= 2) =>
        /\ queries[1].call = "get_token" /\ queries[1].arg = to
        /\ queries[1].answer = "fungible"
        /\ queries[2].call = "get_token" /\ queries[2].arg = to
        /\ function \in {"name", "symbol", "decimals", "totalSupply", "allowance", "balanceOf"}
        /\ queries[2].answer \in {"err", "none"} => (Done /\ result = InternalError)
        /\ (queries[2].answer \in {"fungible", "nft"} /\ Done /\ function # "balanceOf") =>
              /\ result.kind = "ok"
              /\ function \in {"name", "symbol"} =>
                    /\ IsAbiString(result.bytes)
                    /\ AbiStringOf(result.bytes) = RecordOf(queries[2]).symbol
              /\ function = "decimals" =>
                    result.bytes = Zeros(WordLen - 1) \o <<RecordOf(queries[2]).decimals>>
              /\ function \in {"totalSupply", "allowance"} => result.bytes = MaxWord
        /\ (queries[2].answer \in {"fungible", "nft"} /\ function = "balanceOf") =>
              /\ Len(queries) >= 3 \/ pc = "get_last_saved_block"
              /\ Len(queries) = 4 => queries[4].token = queries[2].token

C10_Witness ==
  /\ Done /\ ~OnProxy /\ Len(queries) = 2
  /\ queries[1].answer = "fungible" /\ queries[2].answer = "none"
  /\ result = InternalError

C10_WitnessChanged ==
  /\ Done /\ ~OnProxy /\ Len(queries) = 2
  /\ queries[1].answer = "fungible" /\ queries[1].token = 0
  /\ queries[2].answer = "nft"
  /\ function = "symbol"
  /\ AbiStringOf(result.bytes) = <<78, 70, 84>>

====
